---- MODULE Spec2Model ----
(***************************************************************************)
(* Model of lib/CalDAV/calendarQueryValidator.js (jsDAV): the evaluator of *)
(* a parsed CalDAV calendar-query filter against a parsed calendar object. *)
(*                                                                         *)
(* An optional JavaScript value (undefined / null, or a value) is a        *)
(* sequence of length 0 or 1.  The value a method returns or the error it  *)
(* throws is a string: "true" "false" (booleans), "0" "1" (the numbers the *)
(* ^ operator yields), or the name of the exception.  Every method also    *)
(* yields the log of the evaluator calls it made, in order.                *)
(***************************************************************************)
EXTENDS Integers, Sequences, FiniteSets, TLC

VARIABLES entry, vObject, filter, ret

vars == <<entry, vObject, filter, ret>>

-----------------------------------------------------------------------------
(* Bounds of the explored inputs *)

MaxProps == 2
MaxComps == 2
MaxCompFilters == 2

-----------------------------------------------------------------------------
(* Values *)

None == <<>>
Some(x) == <<x>>

Throws == {"NotImplemented", "BadRequest", "TypeError"}
IsThrow(v) == v \in Throws
Truthy(v) == v \in {"true", "1"}

Bool(b) == IF b THEN "true" ELSE "false"
\* a ^ b on two booleans: the number 0 or 1
Xor(a, b) == IF a # b THEN "1" ELSE "0"

Ret(v, log) == [v |-> v, log |-> log]
Ev(fn, node, name) == [fn |-> fn, on |-> node.name, name |-> name]

\* months since year 0 of new Date(1900, 1, 1) and new Date(3000, 1, 1)
StartSentinel == 22801
EndSentinel == 36001

-----------------------------------------------------------------------------
(* The calendar object model and the text matcher the validator calls *)

isset(vObj, name) == \E i \in 1..Len(vObj.kids) : vObj.kids[i].name = name
select(vObj, name) == SelectSeq(vObj.kids, LAMBDA k : k.name = name)
getChildren(component) == component.kids
getValue(component) == component.value
getDateTime(component) == component.date
isInTimeRange(component, start, end) ==
    start <= component.date /\ end > component.date

IsPrefix(s, t) == Len(s) <= Len(t) /\ SubSeq(t, 1, Len(s)) = s
IsSuffix(s, t) == Len(s) <= Len(t) /\ SubSeq(t, Len(t) - Len(s) + 1, Len(t)) = s
IsInfix(s, t) ==
    \E i \in 0..(Len(t) - Len(s)) : SubSeq(t, i + 1, i + Len(s)) = s

textMatch(haystack, needle, matchType) ==
    CASE matchType = "equals" -> haystack = needle
      [] matchType = "starts-with" -> IsPrefix(needle, haystack)
      [] matchType = "ends-with" -> IsSuffix(needle, haystack)
      [] OTHER -> IsInfix(needle, haystack)

-----------------------------------------------------------------------------
(* calendarQueryValidator.js *)

\* the result without the negation
_checkChildPresence_noNegate(vObj, flt) ==
    LET componentName == flt.name
        isChildPresent == isset(vObj, componentName)
        negateChildPresence == flt.is_not_defined
    IN [children |-> IF isChildPresent THEN select(vObj, componentName) ELSE <<>>,
        stop |-> ~(isChildPresent /\ ~negateChildPresence),
        result |-> Xor(isChildPresent, FALSE)]

_checkChildPresence(vObj, flt) ==
    LET componentName == flt.name
        isChildPresent == isset(vObj, componentName)
        negateChildPresence == flt.is_not_defined
    IN [children |-> IF isChildPresent THEN select(vObj, componentName) ELSE <<>>,
        stop |-> ~(isChildPresent /\ ~negateChildPresence),
        result |-> Xor(isChildPresent, negateChildPresence)]

DateNames ==
    {"COMPLETED", "CREATED", "DTEND", "DTSTAMP", "DTSTART", "DUE", "LAST-MODIFIED"}

\* the end of the range excluded
_validateTimeRange_exclusiveEnd(component, flt) ==
    IF flt = None THEN Ret("true", <<Ev("_validateTimeRange", component, "")>>)
    ELSE
      LET start == IF flt[1].start = None THEN StartSentinel ELSE flt[1].start[1]
          end == IF flt[1].end = None THEN EndSentinel ELSE flt[1].end[1]
          v == CASE component.name \in {"VEVENT", "VTODO", "VJOURNAL"} ->
                      Bool(isInTimeRange(component, start, end))
                 [] component.name = "VALARM" -> "false"
                 [] component.name = "VFREEBUSY" -> "NotImplemented"
                 [] component.name \in DateNames ->
                      Bool(start <= getDateTime(component)
                           /\ end > getDateTime(component))
                 [] OTHER -> "BadRequest"
      IN Ret(v, <<Ev("_validateTimeRange", component, "")>>)

_validateTimeRange(component, flt) ==
    IF flt = None THEN Ret("true", <<Ev("_validateTimeRange", component, "")>>)
    ELSE
      LET start == IF flt[1].start = None THEN StartSentinel ELSE flt[1].start[1]
          end == IF flt[1].end = None THEN EndSentinel ELSE flt[1].end[1]
          v == CASE component.name \in {"VEVENT", "VTODO", "VJOURNAL"} ->
                      Bool(isInTimeRange(component, start, end))
                 [] component.name = "VALARM" -> "false"
                 [] component.name = "VFREEBUSY" -> "NotImplemented"
                 [] component.name \in DateNames ->
                      Bool(start <= getDateTime(component)
                           /\ end >= getDateTime(component))
                 [] OTHER -> "BadRequest"
      IN Ret(v, <<Ev("_validateTimeRange", component, "")>>)

_validateTextMatch(component, tm) ==
    IF tm = None THEN Ret("TypeError", <<Ev("_validateTextMatch", component, "")>>)
    ELSE
      LET isMatching == textMatch(getValue(component), tm[1].value, tm[1].match_type)
      IN Ret(Xor(tm[1].negate_condition, isMatching),
             <<Ev("_validateTextMatch", component, "")>>)

\* if (!r) return false; return rest: rest is evaluated only after a truthy r
AllOf(r, rest) ==
    IF IsThrow(r.v) THEN r
    ELSE IF ~Truthy(r.v) THEN Ret("false", r.log)
    ELSE Ret(rest.v, r.log \o rest.log)

\* if (r) return true; return rest: rest is evaluated only after a falsy r
AnyOf(r, rest) ==
    IF IsThrow(r.v) THEN r
    ELSE IF Truthy(r.v) THEN Ret("true", r.log)
    ELSE Ret(rest.v, r.log \o rest.log)

\* a && b: the value of a when it is falsy, else the value of b
AndAlso(a, b) ==
    IF IsThrow(a.v) \/ ~Truthy(a.v) THEN a
    ELSE Ret(b.v, a.log \o b.log)

\* the outcome r of a call made after the calls of log
After(log, r) == Ret(r.v, log \o r.log)

RECURSIVE call(_, _, _)
RECURSIVE _validateFilterSetFrom(_, _, _, _)
RECURSIVE _anyChildMatchesFrom(_, _, _, _)

\* both evaluated, whatever r is
BothOf(r, rest) ==
    IF IsThrow(r.v) THEN r
    ELSE IF IsThrow(rest.v) THEN Ret(rest.v, r.log \o rest.log)
    ELSE Ret(Bool(Truthy(r.v) /\ Truthy(rest.v)), r.log \o rest.log)

\* the loop going on after a filter that failed
_validateFilterSetFrom_noStop(vObj, filters, validator, i) ==
    IF i > Len(filters) THEN Ret("true", <<>>)
    ELSE BothOf(call(validator, vObj, filters[i]),
                _validateFilterSetFrom(vObj, filters, validator, i + 1))

\* the loop of _validateFilterSet from index i on
_validateFilterSetFrom(vObj, filters, validator, i) ==
    IF i > Len(filters) THEN Ret("true", <<>>)
    ELSE AllOf(call(validator, vObj, filters[i]),
               _validateFilterSetFrom(vObj, filters, validator, i + 1))

_validateFilterSet(vObj, filters, validator) ==
    _validateFilterSetFrom(vObj, filters, validator, 1)

\* the loop of _anyChildMatches from index i on
_anyChildMatchesFrom(children, flt, validator, i) ==
    IF i > Len(children) THEN Ret("false", <<>>)
    ELSE AnyOf(call(validator, children[i], flt),
               _anyChildMatchesFrom(children, flt, validator, i + 1))

_anyChildMatches(children, flt, validator) ==
    _anyChildMatchesFrom(children, flt, validator, 1)

_validateTimeRangeOnComponent(component, timeRangeFilter) ==
    IF timeRangeFilter # None
    THEN AllOf(_anyChildMatches(getChildren(component), timeRangeFilter,
                                "_validateTimeRange"),
               Ret("true", <<>>))
    ELSE Ret("true", <<>>)

\* the last matched component examined instead of the first
compContinuator_lastChild(children, flt) ==
    AllOf(_validateTimeRangeOnComponent(children[Len(children)], flt.time_range),
          AndAlso(_validateFilterSet(children[Len(children)], flt.comp_filters,
                                     "_validateCompFilter"),
                  _validateFilterSet(children[Len(children)], flt.prop_filters,
                                     "_validatePropFilter")))

\* the continuator of _validateCompFilter, node being children[0]
compContinuator(children, flt) ==
    AllOf(_validateTimeRangeOnComponent(children[1], flt.time_range),
          AndAlso(_validateFilterSet(children[1], flt.comp_filters,
                                     "_validateCompFilter"),
                  _validateFilterSet(children[1], flt.prop_filters,
                                     "_validatePropFilter")))

\* the callback _validatePropFilter hands to _anyChildMatches
propChild(child, flt) ==
    AllOf(_validateTimeRange(child, flt.time_range),
          AllOf(_validateTextMatch(child, flt.text_match),
                _validateFilterSet(child, flt.param_filters, "_validateParamFilter")))

\* the first matched property examined only
propContinuator_firstOnly(children, flt) == call("propChild", children[1], flt)

\* the continuator of _validatePropFilter
propContinuator(children, flt) == _anyChildMatches(children, flt, "propChild")

\* the continuator of _validateParamFilter
paramContinuator(children, flt) == _validateTextMatch(children[1], flt.text_match)

continuatorOf(validator, children, flt) ==
    CASE validator = "_validateCompFilter" -> compContinuator(children, flt)
      [] validator = "_validatePropFilter" -> propContinuator(children, flt)
      [] validator = "_validateParamFilter" -> paramContinuator(children, flt)

\* the function mkCommonValidator returns, after result is computed
commonValidator(validator, component, flt, result) ==
    IF result.stop
    THEN Ret(result.result, <<Ev(validator, component, flt.name)>>)
    ELSE After(<<Ev(validator, component, flt.name)>>,
               continuatorOf(validator, result.children, flt))

mkCommonValidator(validator, component, flt) ==
    commonValidator(validator, component, flt, _checkChildPresence(component, flt))

_validateCompFilter(component, flt) ==
    mkCommonValidator("_validateCompFilter", component, flt)
_validatePropFilter(component, flt) ==
    mkCommonValidator("_validatePropFilter", component, flt)
_validateParamFilter(component, flt) ==
    mkCommonValidator("_validateParamFilter", component, flt)

\* validator.call(this, node, filter)
call(validator, node, flt) ==
    CASE validator = "_validateTimeRange" -> _validateTimeRange(node, flt)
      [] validator = "propChild" -> propChild(node, flt)
      [] OTHER -> mkCommonValidator(validator, node, flt)

\* the names not compared
validate_noNameCheck(vObj, flt) ==
    IF flt # None
    THEN AndAlso(_validateFilterSet(vObj, flt[1].comp_filters, "_validateCompFilter"),
                 _validateFilterSet(vObj, flt[1].prop_filters, "_validatePropFilter"))
    ELSE Ret("true", <<>>)

validate(vObj, flt) ==
    IF flt # None
    THEN IF vObj.name = flt[1].name
         THEN AndAlso(_validateFilterSet(vObj, flt[1].comp_filters,
                                         "_validateCompFilter"),
                      _validateFilterSet(vObj, flt[1].prop_filters,
                                         "_validatePropFilter"))
         ELSE Ret("false", <<>>)
    ELSE Ret("true", <<>>)

-----------------------------------------------------------------------------
(* The inputs explored *)

Node(name, value, date, kids) ==
    [name |-> name, value |-> value, date |-> date, kids |-> kids]

SeqsUpTo(S, n) == UNION {[1..k -> S] : k \in 0..n}

Ta == <<"a">>
Tb == <<"b">>
Tab == <<"a", "b">>

\* three consecutive months after the start sentinel
D1 == StartSentinel + 1
D2 == StartSentinel + 2
D3 == StartSentinel + 3

Dates == {StartSentinel - 1, StartSentinel, D1, D2, D3, EndSentinel, EndSentinel + 1}

TimeRanges ==
    {None} \cup {Some([start |-> s, end |-> e]) :
                    s \in {None, Some(D1), Some(D2)}, e \in {None, Some(D2), Some(D3)}}

TextMatches ==
    {Some([value |-> v, match_type |-> m, negate_condition |-> n]) :
        v \in {Ta}, m \in {"equals", "contains"}, n \in BOOLEAN}

TimeRangeNames ==
    DateNames \cup {"VEVENT", "VTODO", "VJOURNAL", "VALARM", "VFREEBUSY",
                    "VTIMEZONE", "SUMMARY"}

Params == {Node("TZID", v, 0, <<>>) : v \in {Ta, Tab}}

ParamFilters ==
    {[name |-> n, is_not_defined |-> d, text_match |-> tm] :
        n \in {"TZID", "VALUE"}, d \in BOOLEAN,
        tm \in {None, Some([value |-> Ta, match_type |-> "equals",
                            negate_condition |-> FALSE])}}

Props ==
    {Node("DTSTART", v, d, ps) :
        v \in {Ta, Tb}, d \in {D1, D3}, ps \in SeqsUpTo(Params, 1)}
    \cup {Node("SUMMARY", v, 0, <<>>) : v \in {Ta, Tab}}

PropFilters ==
    {[name |-> n, is_not_defined |-> d, time_range |-> tr, text_match |-> tm,
      param_filters |-> pf] :
        n \in {"DTSTART", "SUMMARY"}, d \in BOOLEAN,
        tr \in {None, Some([start |-> Some(D1), end |-> Some(D2)])},
        tm \in {None,
                Some([value |-> Ta, match_type |-> "equals", negate_condition |-> FALSE]),
                Some([value |-> Tb, match_type |-> "contains", negate_condition |-> TRUE])},
        pf \in SeqsUpTo({[name |-> "TZID", is_not_defined |-> FALSE,
                          text_match |-> Some([value |-> Ta, match_type |-> "equals",
                                               negate_condition |-> FALSE])],
                         [name |-> "TZID", is_not_defined |-> TRUE,
                          text_match |-> None]}, 1)}

TextA == Some([value |-> Ta, match_type |-> "equals", negate_condition |-> FALSE])
Range12 == Some([start |-> Some(D1), end |-> Some(D2)])
Range23 == Some([start |-> Some(D2), end |-> Some(D3)])

PropFilter(name, nd, tr, tm) ==
    [name |-> name, is_not_defined |-> nd, time_range |-> tr, text_match |-> tm,
     param_filters |-> <<>>]

CompFilter(name, nd, tr, cfs, pfs) ==
    [name |-> name, is_not_defined |-> nd, time_range |-> tr,
     comp_filters |-> cfs, prop_filters |-> pfs]

\* the properties of the components explored
CompProps == {Node("DTSTART", Ta, D1, <<>>), Node("SUMMARY", Ta, 0, <<>>)}

Comps ==
    {Node(n, <<>>, D1, kids) :
        n \in {"VEVENT", "VFREEBUSY"}, kids \in SeqsUpTo(CompProps, MaxProps)}

CompFilters ==
    {CompFilter(n, d, tr, cfs, pfs) :
        n \in {"VEVENT", "VFREEBUSY"}, d \in BOOLEAN,
        tr \in {None, Range12, Range23},
        cfs \in {<<>>, <<CompFilter("VALARM", TRUE, None, <<>>, <<>>)>>,
                 <<CompFilter("VALARM", FALSE, None, <<>>, <<>>)>>},
        pfs \in {<<>>, <<PropFilter("SUMMARY", FALSE, None, None)>>,
                 <<PropFilter("DTSTART", FALSE, Range12, TextA)>>}}

\* the children of the root objects explored
RootKids ==
    {Node("VEVENT", <<>>, D1, <<>>),
     Node("VEVENT", <<>>, D1, <<Node("SUMMARY", Ta, 0, <<>>)>>),
     Node("VEVENT", <<>>, D1, <<Node("DTSTART", Ta, D1, <<>>)>>),
     Node("VFREEBUSY", <<>>, D1, <<Node("DTSTART", Ta, D1, <<>>)>>),
     Node("SUMMARY", Ta, 0, <<>>)}

RootCompFilters ==
    {CompFilter(n, d, tr, <<>>, <<>>) :
        n \in {"VEVENT", "VFREEBUSY"}, d \in BOOLEAN, tr \in {None, Range12}}

RootPropFilters ==
    {PropFilter("SUMMARY", FALSE, None, None),
     PropFilter("SUMMARY", FALSE, None, TextA)}

RootFilters ==
    {None} \cup
    {Some([name |-> n, comp_filters |-> cfs, prop_filters |-> pfs]) :
        n \in {"VCALENDAR", "VEVENT"},
        cfs \in SeqsUpTo(RootCompFilters, MaxCompFilters),
        pfs \in SeqsUpTo(RootPropFilters, 1)}

-----------------------------------------------------------------------------
(* The state machine: one call of one method on one input *)

Pending == [done |-> FALSE, v |-> "", log |-> <<>>]
Done(r) == [done |-> TRUE, v |-> r.v, log |-> r.log]

Init ==
    /\ ret = Pending
    /\ \/ /\ entry = "validate"
          /\ vObject \in {Node("VCALENDAR", <<>>, 0, kids) :
                            kids \in SeqsUpTo(RootKids, MaxComps)}
          /\ filter \in RootFilters
       \/ /\ entry = "_validateCompFilter"
          /\ vObject \in {Node("VCALENDAR", <<>>, 0, kids) :
                            kids \in SeqsUpTo(Comps, MaxComps)}
          /\ filter \in CompFilters
       \/ /\ entry = "_validatePropFilter"
          /\ vObject \in {Node("VEVENT", <<>>, D1, kids) :
                            kids \in SeqsUpTo(Props, MaxProps)}
          /\ filter \in PropFilters
       \/ /\ entry = "_validateParamFilter"
          /\ vObject \in Props
          /\ filter \in ParamFilters
       \/ /\ entry = "_validateTimeRange"
          /\ vObject \in {Node(n, <<>>, d, <<>>) : n \in TimeRangeNames, d \in Dates}
          /\ filter \in TimeRanges

Validate ==
    /\ entry = "validate" /\ ~ret.done
    /\ ret' = Done(validate(vObject, filter))
    /\ UNCHANGED <<entry, vObject, filter>>

ValidateCompFilter ==
    /\ entry = "_validateCompFilter" /\ ~ret.done
    /\ ret' = Done(_validateCompFilter(vObject, filter))
    /\ UNCHANGED <<entry, vObject, filter>>

ValidatePropFilter ==
    /\ entry = "_validatePropFilter" /\ ~ret.done
    /\ ret' = Done(_validatePropFilter(vObject, filter))
    /\ UNCHANGED <<entry, vObject, filter>>

ValidateParamFilter ==
    /\ entry = "_validateParamFilter" /\ ~ret.done
    /\ ret' = Done(_validateParamFilter(vObject, filter))
    /\ UNCHANGED <<entry, vObject, filter>>

ValidateTimeRange ==
    /\ entry = "_validateTimeRange" /\ ~ret.done
    /\ ret' = Done(_validateTimeRange(vObject, filter))
    /\ UNCHANGED <<entry, vObject, filter>>

Next ==
    \/ Validate
    \/ ValidateCompFilter
    \/ ValidatePropFilter
    \/ ValidateParamFilter
    \/ ValidateTimeRange

Spec == Init /\ [][Next]_vars

-----------------------------------------------------------------------------
(* Properties *)

FilterValidators == {"_validateCompFilter", "_validatePropFilter", "_validateParamFilter"}

HasChild(node, name) == \E i \in DOMAIN node.kids : node.kids[i].name = name
Matched(node, name) == SelectSeq(node.kids, LAMBDA k : k.name = name)
Falsy(v) == v \in {"false", "0"}

\* C1: a filter node whose name is absent and not negated stops with a false
\* verdict, absent and negated stops with a true verdict, present and negated
\* stops with a false verdict, and none of these evaluates a time-range, a
\* text-match or a nested filter; present and not negated does not stop and
\* the verdict is that of the node's own rules on the matched children.
C1_PresenceTable ==
    (entry \in FilterValidators /\ ret.done) =>
        LET exists == HasChild(vObject, filter.name)
            negated == filter.is_not_defined
            p == _checkChildPresence(vObject, filter)
            self == <<Ev(entry, vObject, filter.name)>>
        IN /\ (~exists /\ ~negated) => (p.stop /\ Falsy(ret.v) /\ ret.log = self)
           /\ (~exists /\ negated) => (p.stop /\ Truthy(ret.v) /\ ret.log = self)
           /\ (exists /\ negated) => (p.stop /\ Falsy(ret.v) /\ ret.log = self)
           /\ (exists /\ ~negated) =>
                 /\ ~p.stop
                 /\ p.children = Matched(vObject, filter.name)
                 /\ ret.v = continuatorOf(entry, p.children, filter).v
                 /\ ret.log = self \o continuatorOf(entry, p.children, filter).log

\* a negated prop-filter on a present property whose time-range would raise
\* when evaluated returns a false verdict
C1_Witness ==
    /\ entry = "_validatePropFilter" /\ ret.done
    /\ HasChild(vObject, filter.name) /\ filter.is_not_defined
    /\ IsThrow(propContinuator(Matched(vObject, filter.name), filter).v)
    /\ Falsy(ret.v)

\* C2: validate with a filter whose name differs from the object's name
\* returns false, evaluates no filter and raises nothing.
C2_NameMismatch ==
    (entry = "validate" /\ ret.done /\ filter # None) =>
        (filter[1].name # vObject.name => (ret.v = "false" /\ ret.log = <<>>))

\* the mismatching filter would raise if its filters were evaluated
C2_Witness ==
    /\ entry = "validate" /\ ret.done /\ filter # None
    /\ filter[1].name # vObject.name
    /\ IsThrow(validate(vObject, Some([filter[1] EXCEPT !.name = vObject.name])).v)
    /\ ret.v = "false"

EmptyPropFilter(f) ==
    /\ ~f.is_not_defined /\ f.time_range = None /\ f.text_match = None
    /\ f.param_filters = <<>>

\* C3: a prop-filter with no time-range, no text-match and no param-filters,
\* not negated, returns true whenever the component has a property of its name.
C3_AbsentTextMatchTrue ==
    (entry = "_validatePropFilter" /\ ret.done) =>
        ((EmptyPropFilter(filter) /\ HasChild(vObject, filter.name)) => Truthy(ret.v))

\* C4: validate returns a boolean or raises one of the two domain errors.
C4_OnlyDomainErrors ==
    (entry = "validate" /\ ret.done) =>
        ret.v \in {"true", "false", "NotImplemented", "BadRequest"}

VFreeBusyTimeRange(f) ==
    f.name = "VFREEBUSY" /\ ~f.is_not_defined /\ f.time_range # None

\* C5: validate with a first comp-filter that carries a time-range and names a
\* present VFREEBUSY component raises the unsupported-filter error.
C5_FreeBusyRaises ==
    (entry = "validate" /\ ret.done /\ filter # None) =>
        (( /\ filter[1].name = vObject.name
           /\ filter[1].comp_filters # <<>>
           /\ VFreeBusyTimeRange(filter[1].comp_filters[1])
           /\ HasChild(vObject, "VFREEBUSY") ) => ret.v = "NotImplemented")

Lower(tr) == IF tr.start = None THEN StartSentinel ELSE tr.start[1]
Upper(tr) == IF tr.end = None THEN EndSentinel ELSE tr.end[1]

\* C6: a comp-filter named VEVENT, VTODO or VJOURNAL with a time-range, present
\* and not negated, fails when isInTimeRange of the matched component is false
\* and, having no nested filters, passes when it is true.
C6_DelegatesToIsInTimeRange ==
    (entry = "_validateCompFilter" /\ ret.done) =>
        (( /\ filter.name \in {"VEVENT", "VTODO", "VJOURNAL"}
           /\ filter.time_range # None /\ ~filter.is_not_defined
           /\ HasChild(vObject, filter.name) ) =>
            LET c == Matched(vObject, filter.name)[1]
                inRange == isInTimeRange(c, Lower(filter.time_range[1]),
                                         Upper(filter.time_range[1]))
            IN /\ ~inRange => ret.v = "false"
               /\ (inRange /\ filter.comp_filters = <<>> /\ filter.prop_filters = <<>>)
                     => ret.v = "true")

\* C7: on a date property with a time-range the result is true iff
\* s <= v <= e with the sentinels for unset bounds; with no time-range the
\* result is true for every node name.
C7_DateRangeInclusive ==
    (entry = "_validateTimeRange" /\ ret.done) =>
        /\ filter = None => ret.v = "true"
        /\ (filter # None /\ vObject.name \in DateNames) =>
              ret.v = Bool(Lower(filter[1]) <= vObject.date
                           /\ vObject.date <= Upper(filter[1]))

\* a date equal to the end bound, start unset, is in range
C7_Witness ==
    /\ entry = "_validateTimeRange" /\ ret.done
    /\ vObject.name \in DateNames /\ filter # None
    /\ filter[1].start = None /\ filter[1].end = Some(vObject.date)
    /\ ret.v = "true"

TimeOk(child, f) == Truthy(_validateTimeRange(child, f.time_range).v)
TextOk(child, f) == Truthy(_validateTextMatch(child, f.text_match).v)
ParamsOk(child, f) ==
    Truthy(_validateFilterSet(child, f.param_filters, "_validateParamFilter").v)

\* C8: a prop-filter on a present, not negated property returns true iff one
\* of the matched properties passes the time-range, the text-match and every
\* param-filter, all three on that same property.
C8_SamePropertyAnyPosition ==
    (entry = "_validatePropFilter" /\ ret.done) =>
        ((HasChild(vObject, filter.name) /\ ~filter.is_not_defined) =>
            LET ps == Matched(vObject, filter.name)
            IN /\ Truthy(ret.v) <=>
                    \E i \in DOMAIN ps :
                        TimeOk(ps[i], filter) /\ TextOk(ps[i], filter)
                        /\ ParamsOk(ps[i], filter)
               /\ ~IsThrow(ret.v) => ret.v \in {"true", "false"})

\* every condition is passed by some matched property, the second property
\* passes them all and the first does not
C8_Witness ==
    /\ entry = "_validatePropFilter" /\ ret.done
    /\ ~filter.is_not_defined
    /\ filter.time_range # None /\ filter.text_match # None
    /\ LET ps == Matched(vObject, filter.name)
       IN /\ Len(ps) = 2
          /\ TimeOk(ps[1], filter) /\ ~TextOk(ps[1], filter)
          /\ TimeOk(ps[2], filter) /\ TextOk(ps[2], filter) /\ ParamsOk(ps[2], filter)
    /\ ret.v = "true"

\* the conditions are passed only by different properties: not a match
C8_SplitAcrossProperties ==
    /\ entry = "_validatePropFilter" /\ ret.done
    /\ ~filter.is_not_defined
    /\ LET ps == Matched(vObject, filter.name)
       IN /\ Len(ps) = 2
          /\ TimeOk(ps[1], filter) /\ ~TextOk(ps[1], filter)
          /\ ~TimeOk(ps[2], filter) /\ TextOk(ps[2], filter)
          /\ ParamsOk(ps[1], filter) /\ ParamsOk(ps[2], filter)
    /\ ret.v = "false"

\* the node without its second and later children of the given name
RECURSIVE KeepFirstIn(_, _, _)
KeepFirstIn(kids, name, seen) ==
    IF kids = <<>> THEN <<>>
    ELSE IF Head(kids).name = name
         THEN (IF seen THEN <<>> ELSE <<Head(kids)>>)
              \o KeepFirstIn(Tail(kids), name, TRUE)
         ELSE <<Head(kids)>> \o KeepFirstIn(Tail(kids), name, seen)

KeepFirst(node, name) == [node EXCEPT !.kids = KeepFirstIn(node.kids, name, FALSE)]

\* the node without its first child of the given name
DropFirst(node, name) ==
    LET i == CHOOSE j \in DOMAIN node.kids :
                 /\ node.kids[j].name = name
                 /\ \A k \in 1..(j - 1) : node.kids[k].name # name
    IN [node EXCEPT !.kids = SubSeq(node.kids, 1, i - 1)
                             \o SubSeq(node.kids, i + 1, Len(node.kids))]

\* C9: the outcome of a comp-filter on a present, not negated component is
\* the outcome on the parent without every second or later component of
\* that name.
C9_FirstComponentOnly ==
    (entry = "_validateCompFilter" /\ ret.done) =>
        ((HasChild(vObject, filter.name) /\ ~filter.is_not_defined) =>
            LET r == _validateCompFilter(KeepFirst(vObject, filter.name), filter)
            IN ret.v = r.v /\ ret.log = r.log)

\* two components of the name, and the second alone gives another verdict
C9_Witness ==
    /\ entry = "_validateCompFilter" /\ ret.done
    /\ ~filter.is_not_defined
    /\ Len(Matched(vObject, filter.name)) = 2
    /\ ret.v # _validateCompFilter(DropFirst(vObject, filter.name), filter).v

\* the outcome of the comp-filters cfs followed by the prop-filters pfs on a
\* node: that of the first filter that is not true, after the calls of the
\* filters up to it
FirstNotTrue(node, cfs, pfs) ==
    LET n == Len(cfs) + Len(pfs)
        out(i) == IF i <= Len(cfs)
                  THEN _validateCompFilter(node, cfs[i])
                  ELSE _validatePropFilter(node, pfs[i - Len(cfs)])
        bad == {i \in 1..n : ~Truthy(out(i).v)}
        last == IF bad = {} THEN n
                ELSE CHOOSE i \in bad : \A j \in bad : i <= j
        logs[k \in 0..n] == IF k = 0 THEN <<>> ELSE logs[k - 1] \o out(k).log
    IN [v |-> IF bad = {} THEN "true"
              ELSE IF IsThrow(out(last).v) THEN out(last).v
              ELSE "false",
        log |-> logs[last]]

\* C10: validate, and a comp-filter whose time-range passed, evaluate the
\* comp-filters, then the prop-filters, in sequence order up to and including
\* the first one that is not true; the result is true when all are true, the
\* error of that filter when it raises and false otherwise, and no later
\* filter is evaluated.
C10_OrderAndShortCircuit ==
    /\ (entry = "validate" /\ ret.done /\ filter # None) =>
          (filter[1].name = vObject.name =>
              LET e == FirstNotTrue(vObject, filter[1].comp_filters,
                                    filter[1].prop_filters)
              IN ret.v = e.v /\ ret.log = e.log)
    /\ (entry = "_validateCompFilter" /\ ret.done) =>
          ((HasChild(vObject, filter.name) /\ ~filter.is_not_defined) =>
              LET c == Matched(vObject, filter.name)[1]
                  t == _validateTimeRangeOnComponent(c, filter.time_range)
                  e == FirstNotTrue(c, filter.comp_filters, filter.prop_filters)
              IN Truthy(t.v) =>
                    /\ ret.v = e.v
                    /\ ret.log = <<Ev(entry, vObject, filter.name)>> \o t.log \o e.log)

\* the first comp-filter is false and the second would raise: validate is false
C10_Witness ==
    /\ entry = "validate" /\ ret.done /\ filter # None
    /\ filter[1].name = vObject.name
    /\ Len(filter[1].comp_filters) = 2
    /\ Falsy(_validateCompFilter(vObject, filter[1].comp_filters[1]).v)
    /\ IsThrow(_validateCompFilter(vObject, filter[1].comp_filters[2]).v)
    /\ ret.v = "false"

====
